---- MODULE Spec2Model ----
(***************************************************************************)
(* CoinPay (contracts/CoinPay.sol): the payment ledger, its fee split, its  *)
(* access checks and its outbound value transfers.                          *)
(*                                                                          *)
(* The contract runs on the EVM: a call either returns, and its writes     *)
(* stay, or reverts, and every write made since the call was entered       *)
(* (storage, balances, events) is undone.  An outbound `call{value: v}("")`*)
(* hands control to the receiver, which may call back into the contract    *)
(* before it returns success or failure.  The model keeps the frames that  *)
(* are suspended in such a call on `stack`, each with the state at its     *)
(* entry, so that a revert restores it.                                    *)
(***************************************************************************)
EXTENDS Integers, Sequences, FiniteSets, TLC

\* ---------------------------------------------------------------- bounds
MaxPayments == 2        \* createPayment is enabled while paymentCounter < MaxPayments
MaxDepth == 2           \* frames of the contract suspended in an outbound call
InitBalance == 1010     \* the balance every account starts with

\* ------------------------------------------------------------- identities
Null == "0x0"                       \* address(0)
This == "CoinPay"                   \* address(this)
Deployer == "D"                     \* msg.sender of the constructor
Senders == {Deployer, "A", "B"}     \* accounts that call the contract
Addr == Senders \cup {Null}         \* values of an address argument

\* _feeRecipient of the constructor and _newFeeRecipient of updateFeeRecipient:
\* address(0), the admin (scripts/deploy.js) and the payer.  B as fee recipient
\* would be called back as it is in the recipient leg, and may do no more.
FeeRecipients == Addr \ {"B"}
Payers == {"A"}                     \* msg.sender of createPayment
Recipients == {Null, "A", "B"}      \* _recipient of createPayment
Amounts == {0, 10, 1000}            \* msg.value of a call
FeeRates == {25, 1000, 1001}     \* _newFeeBps of updatePlatformFee
Descriptions == {"memo"}            \* _description of createPayment
Times == {0, 1}                     \* block.timestamp

\* enum PaymentStatus
Pending == "Pending"
Completed == "Completed"
Refunded == "Refunded"
Cancelled == "Cancelled"
PaymentStatus == {Pending, Completed, Refunded, Cancelled}

Ids == 0..MaxPayments         \* keys of the payments mapping the model reads

VARIABLES
    owner,            \* address public owner
    paymentCounter,   \* uint256 private paymentCounter
    payments,         \* mapping(uint256 => Payment)
    userPayments,     \* mapping(address => uint256[])
    platformFeeBps,   \* uint256 public platformFeeBps
    feeRecipient,     \* address public feeRecipient
    balance,          \* the balance of every account and of address(this)
    log,              \* the events emitted and not reverted, in order
    transfers,        \* the outbound transfers made and not reverted, in order
    stack,            \* frames of the contract suspended in an outbound call
    now,              \* block.timestamp
    ret,              \* the call that has just ended, until its caller takes the result
    form,             \* PaymentForm: the component's useState values
    handler,          \* PaymentForm: the handleSubmit call under way, where it waits
    wallet,           \* what getAccount() and getProvider() return
    tx                \* the transaction the latest submission sent, and its fate

worldVars == <<owner, paymentCounter, payments, userPayments, platformFeeBps,
               feeRecipient, balance, log, transfers>>
contractVars == <<owner, paymentCounter, payments, userPayments, platformFeeBps,
                  feeRecipient, balance, log, transfers, stack, now, ret>>
pageVars == <<form, handler, wallet, tx>>
vars == <<contractVars, pageVars>>

\* Everything a revert undoes, as one value.
World ==
    [owner |-> owner, paymentCounter |-> paymentCounter, payments |-> payments,
     userPayments |-> userPayments, platformFeeBps |-> platformFeeBps,
     feeRecipient |-> feeRecipient, balance |-> balance, log |-> log,
     transfers |-> transfers]

SetWorld(w) ==
    /\ owner' = w.owner
    /\ paymentCounter' = w.paymentCounter
    /\ payments' = w.payments
    /\ userPayments' = w.userPayments
    /\ platformFeeBps' = w.platformFeeBps
    /\ feeRecipient' = w.feeRecipient
    /\ balance' = w.balance
    /\ log' = w.log
    /\ transfers' = w.transfers

\* The value of a mapping slot that was never written.
NoPayment ==
    [id |-> 0, payer |-> Null, recipient |-> Null, amount |-> 0, timestamp |-> 0,
     status |-> Pending, description |-> "", exists |-> FALSE]

\* No call has just ended.
NoRet ==
    [fn |-> "", sender |-> Null, id |-> 0, result |-> "", transferFailed |-> FALSE,
     before |-> <<>>]

\* Revert strings of the require statements.
ErrNotOwner == "CoinPay: Not owner"
ErrNotExist == "CoinPay: Payment does not exist"
ErrInvalidRecipient == "CoinPay: Invalid recipient"
ErrPaySelf == "CoinPay: Cannot pay yourself"
ErrAmount == "CoinPay: Amount must be greater than 0"
ErrNotPending == "CoinPay: Payment not pending"
ErrFeeTransfer == "CoinPay: Fee transfer failed"
ErrPayTransfer == "CoinPay: Payment transfer failed"
ErrUnauthorized == "CoinPay: Unauthorized"
ErrCannotRefund == "CoinPay: Cannot refund this payment"
ErrRefundTransfer == "CoinPay: Refund transfer failed"
ErrOnlyPending == "CoinPay: Only pending payments can be cancelled"
ErrCancelTransfer == "CoinPay: Cancel transfer failed"
ErrFeeTooHigh == "CoinPay: Fee cannot exceed 10%"
ErrInvalidAddress == "CoinPay: Invalid address"
ErrNoBalance == "CoinPay: No balance to withdraw"
ErrWithdraw == "CoinPay: Withdrawal failed"
ErrReceive == "CoinPay: Use createPayment function"
ErrFallback == "CoinPay: Function not found"
Ok == "ok"

\* ------------------------------------------------ the PaymentForm component
\* JavaScript's null, and the texts the form's inputs can hold.
JsNull == "null"
AmountInputs == {"", "1.5", "1e5"}
RecipientInputs == {"", "B", This}
DescriptionInputs == {"", "memo"}
ContractAddresses == {"", This}      \* NEXT_PUBLIC_CONTRACT_ADDRESS || ''
Accounts == {JsNull, "A"}            \* getAccount()
Messages == {"", "user rejected"}    \* err.message of a rejected promise

\* The useState defaults.
InitialForm ==
    [amount |-> "", recipient |-> "", description |-> "", loading |-> FALSE,
     txHash |-> JsNull, paymentId |-> JsNull, error |-> JsNull,
     contractAddress |-> "", useContract |-> TRUE]

\* No handleSubmit call is under way.
NoHandler == [pc |-> "idle", amount |-> "", recipient |-> "", viaContract |-> FALSE]

\* The latest submission has sent no transaction.
NoTx == [mode |-> "none", to |-> "", status |-> "none"]

\* The page is not open: the contract is used by other clients only.
PageNotOpen ==
    /\ form = InitialForm
    /\ handler = NoHandler
    /\ wallet = [account |-> JsNull, provider |-> FALSE]
    /\ tx = NoTx

\* constructor(_feeRecipient), called by Deployer with any address argument.
Init ==
    /\ owner = Deployer
    /\ feeRecipient \in FeeRecipients
    /\ paymentCounter = 0
    /\ platformFeeBps = 25
    /\ payments = [i \in Ids |-> NoPayment]
    /\ userPayments = [a \in Senders |-> <<>>]
    /\ balance = [a \in Senders \cup {This} |-> IF a = This THEN 0 ELSE InitBalance]
    /\ log = <<>>
    /\ transfers = <<>>
    /\ stack = <<>>
    /\ now = 0
    /\ ret = NoRet
    /\ PageNotOpen

\* ------------------------------------------------------------ the EVM
Top == stack[Len(stack)]
Pop == SubSeq(stack, 1, Len(stack) - 1)

\* Who may call the contract now: any account when no frame is suspended,
\* else the account that the innermost outbound call handed control to.
Idle == ret.fn = ""

Callers ==
    IF ~Idle THEN {}
    ELSE IF stack = <<>> THEN Senders ELSE {Top.callee}

\* v moves from one account to another.
Move(w, from, to, v) ==
    [w EXCEPT !.balance = [@ EXCEPT ![from] = @ - v, ![to] = @ + v]]

\* `to.call{value: v}("")` cannot start: the contract lacks the value.
TransferFails(w, to, v) == w.balance[This] < v

\* The value leaves the contract for `to`: the leg `kind` of payment id.
Send(w, to, v, kind, id) ==
    [Move(w, This, to, v) EXCEPT
        !.transfers = Append(@, [to |-> to, amount |-> v, kind |-> kind, id |-> id])]

Emit(w, e) == [w EXCEPT !.log = Append(@, e)]

\* What the caller and an observer learn of a call that ended: its result, the
\* state at its entry, and whether an outbound transfer it issued failed.
Ret(fn, sender, id, result, failed, before) ==
    [fn |-> fn, sender |-> sender, id |-> id, result |-> result,
     transferFailed |-> failed, before |-> before]

\* A call that fails before it hands control to anyone: nothing is written.
Reverts(fn, sender, id, reason) ==
    /\ UNCHANGED <<worldVars, stack, now>>
    /\ UNCHANGED pageVars
    /\ ret' = Ret(fn, sender, id, reason, FALSE, World)

\* A call whose first outbound transfer cannot start, and that reverts for it.
RevertsOnTransfer(fn, sender, id, reason) ==
    /\ UNCHANGED <<worldVars, stack, now>>
    /\ UNCHANGED pageVars
    /\ ret' = Ret(fn, sender, id, reason, TRUE, World)

\* A call that ends without handing control to anyone.
Returns(w, fn, sender, id) ==
    /\ SetWorld(w)
    /\ UNCHANGED <<stack, now>>
    /\ UNCHANGED pageVars
    /\ ret' = Ret(fn, sender, id, Ok, FALSE, World)

\* A call that reaches an outbound transfer: the frame waits for the receiver.
Suspends(w, frame) ==
    /\ Len(stack) < MaxDepth
    /\ SetWorld(w)
    /\ stack' = Append(stack, frame)
    /\ UNCHANGED <<now, ret>>
    /\ UNCHANGED pageVars

\* The innermost frame goes on to its next outbound transfer.
ResumeSuspends(w, frame) ==
    /\ SetWorld(w)
    /\ stack' = [stack EXCEPT ![Len(stack)] = frame]
    /\ UNCHANGED <<now, ret>>
    /\ UNCHANGED pageVars

\* The innermost frame ends normally.
ResumeReturns(w, f, failed) ==
    /\ SetWorld(w)
    /\ stack' = Pop
    /\ UNCHANGED now
    /\ UNCHANGED pageVars
    /\ ret' = Ret(f.fn, f.sender, f.id, Ok, failed, f.snap)

\* The innermost frame reverts: the state at its entry is restored.
ResumeReverts(f, reason, failed) ==
    /\ SetWorld(f.snap)
    /\ stack' = Pop
    /\ UNCHANGED now
    /\ UNCHANGED pageVars
    /\ ret' = Ret(f.fn, f.sender, f.id, reason, failed, f.snap)

\* ------------------------------------------------------- _completePayment
\* Mutant: the fee is taken per mille, not per ten thousand.
FeeAmount_PerMille(amount, bps) == (amount * bps) \div 1000

\* uint256 feeAmount = (payment.amount * platformFeeBps) / 10000;
FeeAmount(amount, bps) == (amount * bps) \div 10000

\* Mutant: the fee is taken off the recipient's share twice.
RecipientAmount_FeeTwice(amount, fee) == amount - 2 * fee

\* uint256 recipientAmount = payment.amount - feeAmount;
RecipientAmount(amount, fee) == amount - fee

\* Mutant: the result of the outbound call is not checked.
RequireSuccess_Ignored(success) == TRUE

\* require(success) after an outbound call.
RequireSuccess(success) == success

\* if (feeAmount > 0 && feeRecipient != address(0))
PaysFee(feeAmount, to) == feeAmount > 0 /\ to # Null

\* Mutant: the status is left Pending while the payouts are made.
MarkCompleted_Skipped(w, id) == w

\* payment.status = PaymentStatus.Completed, before any transfer.
MarkCompleted(w, id) == [w EXCEPT !.payments[id].status = Completed]

\* Mutant: the recipient's share is computed again, from the rate in storage,
\* after the fee payout returned.
PayRecipient_Recomputes(w, f) ==
    LET to == w.payments[f.id].recipient
        again == RecipientAmount(w.payments[f.id].amount,
                                 FeeAmount(w.payments[f.id].amount, w.platformFeeBps))
    IN  IF TransferFails(w, to, again)
        THEN ResumeReverts(f, ErrPayTransfer, TRUE)
        ELSE ResumeSuspends(Send(w, to, again, "pay", f.id),
                            [f EXCEPT !.pc = "pay", !.callee = to])

\* The recipient leg of _completePayment (lines 158-162), up to the call.
PayRecipient(w, f) ==
    LET to == w.payments[f.id].recipient
    IN  IF TransferFails(w, to, f.amount)
        THEN ResumeReverts(f, ErrPayTransfer, TRUE)
        ELSE ResumeSuspends(Send(w, to, f.amount, "pay", f.id),
                            [f EXCEPT !.pc = "pay", !.callee = to])

\* ---------------------------------------------------------- createPayment
\* Mutant: the counter is incremented twice.
NextPaymentId_Skips(counter) == counter + 2

\* Mutant: the counter is read without being incremented.
NextPaymentId_Same(counter) == counter

\* paymentCounter++; uint256 paymentId = paymentCounter;
NextPaymentId(counter) == counter + 1

\* Mutant: a payment of nothing is accepted.
AmountAllowed_Any(value) == TRUE

\* require(msg.value > 0)
AmountAllowed(value) == value > 0

\* Mutant: the new id is pushed twice.
PushId_Twice(ids, paymentId) == Append(Append(ids, paymentId), paymentId)

\* Mutant: the new id is put at the front of the index.
PushId_Front(ids, paymentId) == <<paymentId>> \o ids

\* userPayments[msg.sender].push(paymentId);
PushId(ids, paymentId) == Append(ids, paymentId)

createPayment(sender, _recipient, _description, value) ==
    /\ sender \in Callers
    /\ value <= balance[sender]
    /\ paymentCounter < MaxPayments
    /\ IF _recipient = Null THEN Reverts("createPayment", sender, 0, ErrInvalidRecipient)
       ELSE IF _recipient = sender THEN Reverts("createPayment", sender, 0, ErrPaySelf)
       ELSE IF ~AmountAllowed(value) THEN Reverts("createPayment", sender, 0, ErrAmount)
       ELSE
        LET paymentId == NextPaymentId(paymentCounter)
            newPayment == [id |-> paymentId, payer |-> sender, recipient |-> _recipient,
                           amount |-> value, timestamp |-> now, status |-> Pending,
                           description |-> _description, exists |-> TRUE]
            w1 == [Move(World, sender, This, value) EXCEPT
                      !.paymentCounter = paymentId,
                      !.payments[paymentId] = newPayment,
                      !.userPayments[sender] = PushId(@, paymentId)]
            w2 == Emit(w1, [name |-> "PaymentCreated", paymentId |-> paymentId,
                            who |-> sender, recipient |-> _recipient,
                            amount |-> value, description |-> _description])
            \* _completePayment(paymentId)
            w3 == MarkCompleted(w2, paymentId)
            feeAmount == FeeAmount(w3.payments[paymentId].amount, w3.platformFeeBps)
            recipientAmount == RecipientAmount(w3.payments[paymentId].amount, feeAmount)
            frame == [fn |-> "createPayment", pc |-> "fee", sender |-> sender,
                      id |-> paymentId, callee |-> w3.feeRecipient,
                      amount |-> recipientAmount, snap |-> World]
        IN  IF w2.payments[paymentId].status # Pending
            THEN Reverts("createPayment", sender, 0, ErrNotPending)
            ELSE IF PaysFee(feeAmount, w3.feeRecipient)
            THEN IF TransferFails(w3, w3.feeRecipient, feeAmount)
                 THEN RevertsOnTransfer("createPayment", sender, 0, ErrFeeTransfer)
                 ELSE Suspends(Send(w3, w3.feeRecipient, feeAmount, "fee", paymentId),
                               frame)
            ELSE IF TransferFails(w3, _recipient, recipientAmount)
                 THEN RevertsOnTransfer("createPayment", sender, 0, ErrPayTransfer)
                 ELSE Suspends(Send(w3, _recipient, recipientAmount, "pay", paymentId),
                               [frame EXCEPT !.pc = "pay", !.callee = _recipient])

\* ------------------------------------------------- refundPayment / cancelPayment
\* Mutant: the modifier lets every id through.
ValidPayment_Any(_paymentId) == TRUE

\* modifier validPayment: require(payments[_paymentId].exists)
ValidPayment(_paymentId) == payments[_paymentId].exists

\* Mutant: the caller is not checked.
IsAuthorized_Anyone(sender, payment, admin) == TRUE

\* require(msg.sender == payment.payer || msg.sender == owner)
IsAuthorized(sender, payment, admin) == sender = payment.payer \/ sender = admin

\* Mutant: the status is not checked before a refund.
CanRefund_Always(status) == TRUE

\* require(status == Pending || status == Completed)
CanRefund(status) == status = Pending \/ status = Completed

\* require(status == Pending)
CanCancel(status) == status = Pending

\* Mutant: the status is not written before the transfer.
MarkRefunded_Skipped(w, id) == w

\* Mutant: a refund marks every payment of the same payer.
MarkRefunded_AllOfPayer(w, id) ==
    [w EXCEPT !.payments =
        [i \in DOMAIN @ |->
            IF @[i].exists /\ @[i].payer = @[id].payer
            THEN [@[i] EXCEPT !.status = Refunded] ELSE @[i]]]

\* Mutant: a refund also clears the amount of the record.
MarkRefunded_ClearsAmount(w, id) ==
    [w EXCEPT !.payments[id].status = Refunded, !.payments[id].amount = 0]

\* payment.status = PaymentStatus.Refunded, before the transfer.
MarkRefunded(w, id) == [w EXCEPT !.payments[id].status = Refunded]

\* payment.status = PaymentStatus.Cancelled, before the transfer.
MarkCancelled(w, id) == [w EXCEPT !.payments[id].status = Cancelled]

\* Mutant: the refund is net of the platform fee.
RefundAmount_NetOfFee(payment) ==
    payment.amount - (payment.amount * platformFeeBps) \div 10000

\* uint256 refundAmount = payment.amount;
RefundAmount(payment) == payment.amount

\* Mutant: the status is checked before the caller.
RefundGuard_StatusFirst(sender, _paymentId) ==
    IF ~ValidPayment(_paymentId) THEN ErrNotExist
    ELSE IF ~CanRefund(payments[_paymentId].status) THEN ErrCannotRefund
    ELSE IF ~IsAuthorized(sender, payments[_paymentId], owner) THEN ErrUnauthorized
    ELSE Ok

\* The modifier and the require statements of refundPayment, in their order:
\* the first that fails gives the revert string.
RefundGuard(sender, _paymentId) ==
    IF ~ValidPayment(_paymentId) THEN ErrNotExist
    ELSE IF ~IsAuthorized(sender, payments[_paymentId], owner) THEN ErrUnauthorized
    ELSE IF ~CanRefund(payments[_paymentId].status) THEN ErrCannotRefund
    ELSE Ok

\* The modifier and the require statements of cancelPayment, in their order.
CancelGuard(sender, _paymentId) ==
    IF ~ValidPayment(_paymentId) THEN ErrNotExist
    ELSE IF ~IsAuthorized(sender, payments[_paymentId], owner) THEN ErrUnauthorized
    ELSE IF ~CanCancel(payments[_paymentId].status) THEN ErrOnlyPending
    ELSE Ok

refundPayment(sender, _paymentId) ==
    /\ sender \in Callers
    /\ IF RefundGuard(sender, _paymentId) # Ok
       THEN Reverts("refundPayment", sender, _paymentId, RefundGuard(sender, _paymentId))
       ELSE
        LET w1 == MarkRefunded(World, _paymentId)
            refundAmount == RefundAmount(w1.payments[_paymentId])
            to == w1.payments[_paymentId].payer
        IN  IF TransferFails(w1, to, refundAmount)
            THEN RevertsOnTransfer("refundPayment", sender, _paymentId, ErrRefundTransfer)
            ELSE Suspends(Send(w1, to, refundAmount, "refund", _paymentId),
                          [fn |-> "refundPayment", pc |-> "refund", sender |-> sender,
                           id |-> _paymentId, callee |-> to, amount |-> refundAmount,
                           snap |-> World])

cancelPayment(sender, _paymentId) ==
    /\ sender \in Callers
    /\ IF CancelGuard(sender, _paymentId) # Ok
       THEN Reverts("cancelPayment", sender, _paymentId, CancelGuard(sender, _paymentId))
       ELSE
        LET w1 == MarkCancelled(World, _paymentId)
            refundAmount == RefundAmount(w1.payments[_paymentId])
            to == w1.payments[_paymentId].payer
        IN  IF TransferFails(w1, to, refundAmount)
            THEN RevertsOnTransfer("cancelPayment", sender, _paymentId, ErrCancelTransfer)
            ELSE Suspends(Send(w1, to, refundAmount, "cancel", _paymentId),
                          [fn |-> "cancelPayment", pc |-> "cancel", sender |-> sender,
                           id |-> _paymentId, callee |-> to, amount |-> refundAmount,
                           snap |-> World])

\* ------------------------------------------------------------ admin
\* Mutant: the modifier lets every caller through.
OnlyOwner_Anyone(sender, admin) == TRUE

\* modifier onlyOwner
OnlyOwner(sender, admin) == sender = admin

\* Mutant: the new rate is not validated.
FeeAllowed_Any(_newFeeBps) == TRUE

\* require(_newFeeBps <= 1000)
FeeAllowed(_newFeeBps) == _newFeeBps <= 1000

\* Mutant: the accepted rate is not stored.
SetPlatformFee_Skipped(w, _newFeeBps) == w

\* platformFeeBps = _newFeeBps;
SetPlatformFee(w, _newFeeBps) == [w EXCEPT !.platformFeeBps = _newFeeBps]

updatePlatformFee(sender, _newFeeBps) ==
    /\ sender \in Callers
    /\ IF ~OnlyOwner(sender, owner)
       THEN Reverts("updatePlatformFee", sender, 0, ErrNotOwner)
       ELSE IF ~FeeAllowed(_newFeeBps)
       THEN Reverts("updatePlatformFee", sender, 0, ErrFeeTooHigh)
       ELSE Returns(SetPlatformFee(World, _newFeeBps), "updatePlatformFee", sender, 0)

\* Mutant: the new address is written to the admin slot.
SetFeeRecipient_WritesOwner(w, _newFeeRecipient) == [w EXCEPT !.owner = _newFeeRecipient]

\* feeRecipient = _newFeeRecipient;
SetFeeRecipient(w, _newFeeRecipient) == [w EXCEPT !.feeRecipient = _newFeeRecipient]

updateFeeRecipient(sender, _newFeeRecipient) ==
    /\ sender \in Callers
    /\ IF ~OnlyOwner(sender, owner)
       THEN Reverts("updateFeeRecipient", sender, 0, ErrNotOwner)
       ELSE IF _newFeeRecipient = Null
       THEN Reverts("updateFeeRecipient", sender, 0, ErrInvalidAddress)
       ELSE Returns(SetFeeRecipient(World, _newFeeRecipient),
                    "updateFeeRecipient", sender, 0)

\* Mutant: an empty contract may be withdrawn from.
HasBalance_Always(w) == TRUE

\* require(balance > 0), with balance = address(this).balance
HasBalance(w) == w.balance[This] > 0

emergencyWithdraw(sender) ==
    /\ sender \in Callers
    /\ IF ~OnlyOwner(sender, owner)
       THEN Reverts("emergencyWithdraw", sender, 0, ErrNotOwner)
       ELSE IF ~HasBalance(World)
       THEN Reverts("emergencyWithdraw", sender, 0, ErrNoBalance)
       ELSE IF TransferFails(World, owner, balance[This])
       THEN RevertsOnTransfer("emergencyWithdraw", sender, 0, ErrWithdraw)
       ELSE Suspends(Send(World, owner, balance[This], "withdraw", 0),
                     [fn |-> "emergencyWithdraw", pc |-> "withdraw", sender |-> sender,
                      id |-> 0, callee |-> owner, amount |-> balance[This],
                      snap |-> World])

\* Mutant: a plain transfer of value is accepted.
receive_Accepts(sender, value) ==
    /\ sender \in Callers
    /\ value <= balance[sender]
    /\ Returns(Move(World, sender, This, value), "receive", sender, 0)

\* receive() external payable { revert(...) }
receive(sender, value) ==
    /\ sender \in Callers
    /\ value <= balance[sender]
    /\ Reverts("receive", sender, 0, ErrReceive)

\* fallback() external payable { revert(...) }
fallback(sender, value) ==
    /\ sender \in Callers
    /\ value <= balance[sender]
    /\ Reverts("fallback", sender, 0, ErrFallback)

\* ------------------------------------------------------------ views
\* What a view call returns: the revert string or Ok, and the value.
\* getPayment(_paymentId), under the validPayment modifier.
getPayment(_paymentId) ==
    IF ~ValidPayment(_paymentId)
    THEN [result |-> ErrNotExist, value |-> NoPayment]
    ELSE [result |-> Ok, value |-> payments[_paymentId]]

\* getUserPayments(_user)
getUserPayments(_user) == userPayments[_user]

\* getPaymentCount()
getPaymentCount == paymentCounter

\* getBalance()
getBalance == balance[This]

\* --------------------------------------------- the return of an outbound call
\* The receiver of the innermost frame's transfer returns; the frame goes on
\* from the statement after the call.
TransferReturns(success) ==
    /\ stack # <<>>
    /\ Idle
    /\ LET f == Top
       IN  IF f.pc = "fee" THEN
                \* require(feeSuccess), then the recipient leg
                IF ~RequireSuccess(success) THEN ResumeReverts(f, ErrFeeTransfer, ~success)
                ELSE PayRecipient(World, f)
           ELSE IF f.pc = "pay" THEN
                \* require(success); emit PaymentCompleted; return paymentId
                IF ~RequireSuccess(success) THEN ResumeReverts(f, ErrPayTransfer, ~success)
                ELSE ResumeReturns(
                        Emit(World, [name |-> "PaymentCompleted", paymentId |-> f.id,
                                     who |-> payments[f.id].recipient,
                                     recipient |-> payments[f.id].recipient,
                                     amount |-> f.amount, description |-> ""]), f, ~success)
           ELSE IF f.pc = "refund" THEN
                IF ~RequireSuccess(success) THEN ResumeReverts(f, ErrRefundTransfer, ~success)
                ELSE ResumeReturns(
                        Emit(World, [name |-> "PaymentRefunded", paymentId |-> f.id,
                                     who |-> payments[f.id].payer,
                                     recipient |-> Null,
                                     amount |-> f.amount, description |-> ""]), f, ~success)
           ELSE IF f.pc = "cancel" THEN
                IF ~RequireSuccess(success) THEN ResumeReverts(f, ErrCancelTransfer, ~success)
                ELSE ResumeReturns(
                        Emit(World, [name |-> "PaymentCancelled", paymentId |-> f.id,
                                     who |-> payments[f.id].payer,
                                     recipient |-> Null,
                                     amount |-> f.amount, description |-> ""]), f, ~success)
           ELSE \* f.pc = "withdraw"
                IF ~RequireSuccess(success) THEN ResumeReverts(f, ErrWithdraw, ~success)
                ELSE ResumeReturns(World, f, ~success)

\* A later block: block.timestamp grows between transactions.
NewBlock ==
    /\ stack = <<>>
    /\ Idle
    /\ now + 1 \in Times
    /\ 1 <= paymentCounter              \* the clock starts at the first payment
    /\ paymentCounter < MaxPayments     \* only createPayment reads the time
    /\ now' = now + 1
    /\ UNCHANGED <<worldVars, stack, ret>>
    /\ UNCHANGED pageVars

\* The caller of the call that has just ended takes its result and goes on.
CallerResumes ==
    /\ ~Idle
    /\ ret' = NoRet
    /\ UNCHANGED <<worldVars, stack, now>>
    /\ UNCHANGED pageVars

Next ==
    \/ \E s \in Payers, r \in Recipients, d \in Descriptions, v \in Amounts :
          createPayment(s, r, d, v)
    \/ \E s \in Senders, i \in Ids : refundPayment(s, i)
    \/ \E s \in Senders, i \in Ids : cancelPayment(s, i)
    \/ \E s \in Senders, b \in FeeRates : updatePlatformFee(s, b)
    \/ \E s \in Senders, a \in FeeRecipients : updateFeeRecipient(s, a)
    \/ \E s \in Senders : emergencyWithdraw(s)
    \/ \E s \in Senders, v \in Amounts : receive(s, v)
    \/ \E s \in Senders, v \in Amounts : fallback(s, v)
    \/ \E ok \in BOOLEAN : TransferReturns(ok)
    \/ NewBlock
    \/ CallerResumes

Spec == Init /\ [][Next]_vars

\* ------------------------------------------------- the fee split on its own
\* One createPayment by A to B, of every amount of SplitAmounts, under every
\* fee rate that updatePlatformFee admits, with the deployer as fee recipient
\* (scripts/deploy.js) and receivers that accept what they are sent.
MaxSplitAmount == 30
MaxFeeBps == 1000
SplitAmounts == (1..MaxSplitAmount) \cup {1000}

InitSplit ==
    /\ owner = Deployer
    /\ feeRecipient = Deployer
    /\ paymentCounter = 0
    /\ platformFeeBps \in 0..MaxFeeBps
    /\ payments = [i \in Ids |-> NoPayment]
    /\ userPayments = [a \in Senders |-> <<>>]
    /\ balance = [a \in Senders \cup {This} |-> IF a = This THEN 0 ELSE InitBalance]
    /\ log = <<>>
    /\ transfers = <<>>
    /\ stack = <<>>
    /\ now = 0
    /\ ret = NoRet
    /\ PageNotOpen

NextSplit ==
    \/ \E v \in SplitAmounts : paymentCounter = 0 /\ createPayment("A", "B", "memo", v)
    \/ TransferReturns(TRUE)
    \/ CallerResumes

SpecSplit == InitSplit /\ [][NextSplit]_vars

\* ============================================ components/PaymentForm.js
\* The form as a client of the contract: handleSubmit, step by step between
\* its awaits, the inputs' onChange handlers, and the chain that mines what
\* the form has sent. The contract's own state is left alone here.

ErrNoWallet == "Please connect your wallet first"
ErrFillIn == "Please fill in all fields"
ErrNotConfigured ==
    "Contract address not configured. Please set NEXT_PUBLIC_CONTRACT_ADDRESS"
ErrNoProvider == "Wallet provider not available"
ErrTransactionFailed == "Transaction failed"
ErrParseEther == "invalid FixedNumber string value"
TheHash == "0xhash"           \* receipt.hash, or what eth_sendTransaction returns
ThePaymentId == "1"           \* parsed.args.paymentId.toString()

\* !value of a string or null.
Falsy(value) == value \in {JsNull, ""}

\* ethers.parseEther accepts a plain decimal text and throws on any other.
ParsesAsEther(text) == text = "1.5"

\* err.message || 'Transaction failed'
ErrorText(message) == IF Falsy(message) THEN ErrTransactionFailed ELSE message

\* The three setters at the top of handleSubmit.
ClearsOutcome(f) ==
    [f EXCEPT !.error = JsNull, !.txHash = JsNull, !.paymentId = JsNull]

\* The checks before setLoading(true): the message of the first that fails.
Rejection ==
    IF Falsy(wallet.account) THEN ErrNoWallet
    ELSE IF Falsy(form.amount) \/ Falsy(form.recipient) THEN ErrFillIn
    ELSE IF form.useContract /\ Falsy(form.contractAddress) THEN ErrNotConfigured
    ELSE ""

\* Mutant: the finally block is missing.
Finally_Missing(f) == f

\* finally { setLoading(false) }
Finally(f) == [f EXCEPT !.loading = FALSE]

\* setAmount(''); setRecipient(''); setDescription('')
ClearsFields(f) == [f EXCEPT !.amount = "", !.recipient = "", !.description = ""]

\* catch (err) { setError(err.message || 'Transaction failed') } finally {...}
Catch(message) ==
    /\ form' = Finally([form EXCEPT !.error = ErrorText(message)])
    /\ handler' = NoHandler

\* The end of the try block, after setTxHash (and setPaymentId).
Succeeds(f) ==
    /\ form' = Finally(ClearsFields(f))
    /\ handler' = NoHandler

\* handleSubmit up to its first await. The submit button is disabled while
\* loading, so the form is not submitted again before the call has ended.
handleSubmit ==
    /\ ~form.loading
    /\ tx' = NoTx
    /\ UNCHANGED <<contractVars, wallet>>
    /\ IF Rejection # ""
          THEN /\ form' = [ClearsOutcome(form) EXCEPT !.error = Rejection]
               /\ UNCHANGED handler
          ELSE /\ form' = [ClearsOutcome(form) EXCEPT !.loading = TRUE]
               /\ handler' = [pc |-> "import", amount |-> form.amount,
                              recipient |-> form.recipient,
                              viaContract |-> form.useContract
                                              /\ ~Falsy(form.contractAddress)]

\* The inputs' onChange handlers; the description input and the checkbox are
\* rendered only with a contract address.
setAmount(value) ==
    /\ form' = [form EXCEPT !.amount = value]
    /\ UNCHANGED <<contractVars, handler, wallet, tx>>

setRecipient(value) ==
    /\ form' = [form EXCEPT !.recipient = value]
    /\ UNCHANGED <<contractVars, handler, wallet, tx>>

setDescription(value) ==
    /\ form.useContract /\ ~Falsy(form.contractAddress)
    /\ form' = [form EXCEPT !.description = value]
    /\ UNCHANGED <<contractVars, handler, wallet, tx>>

setUseContract(checked) ==
    /\ ~Falsy(form.contractAddress)
    /\ form' = [form EXCEPT !.useContract = checked]
    /\ UNCHANGED <<contractVars, handler, wallet, tx>>

\* await import('ethers') ends; the handler goes on to the call that sends:
\* contract.createPayment in contract mode, eth_sendTransaction otherwise.
\* Both take parseEther(amount), which throws before anything is sent.
ImportResolves(ok, message) ==
    /\ handler.pc = "import"
    /\ UNCHANGED <<contractVars, wallet, tx>>
    /\ IF ~ok THEN Catch(message)
       ELSE IF ~wallet.provider THEN Catch(ErrNoProvider)
       ELSE IF ~ParsesAsEther(handler.amount) THEN Catch(ErrParseEther)
       ELSE /\ handler' = [handler EXCEPT
                              !.pc = IF handler.viaContract THEN "send" ELSE "request"]
            /\ UNCHANGED form

\* lib/contract.js createPayment: await contract.createPayment(...). The
\* wallet sends the transaction, or the call is rejected and rethrown.
SendResolves(ok, message) ==
    /\ handler.pc = "send"
    /\ UNCHANGED <<contractVars, wallet>>
    /\ IF ok
          THEN /\ tx' = [mode |-> "contract", to |-> handler.recipient,
                         status |-> "pending"]
               /\ handler' = [handler EXCEPT !.pc = "wait"]
               /\ UNCHANGED form
          ELSE /\ Catch(message)
               /\ UNCHANGED tx

\* lib/contract.js createPayment: await tx.wait() ends when the transaction
\* is mined, and throws if it has reverted; the result carries paymentId
\* when a PaymentCreated log was found in the receipt.
WaitResolves(ok, found, message) ==
    /\ handler.pc = "wait"
    /\ UNCHANGED <<contractVars, wallet>>
    /\ IF ok
          THEN /\ tx' = [tx EXCEPT !.status = "succeeded"]
               /\ Succeeds([form EXCEPT
                      !.txHash = TheHash,
                      !.paymentId = IF found THEN ThePaymentId ELSE @])
          ELSE /\ tx' = [tx EXCEPT !.status = "reverted"]
               /\ Catch(message)

\* await provider.request({method: 'eth_sendTransaction', ...}) ends with
\* the hash as soon as the wallet has sent the transaction.
RequestResolves(ok, message) ==
    /\ handler.pc = "request"
    /\ UNCHANGED <<contractVars, wallet>>
    /\ IF ok
          THEN /\ tx' = [mode |-> "direct", to |-> handler.recipient,
                         status |-> "pending"]
               /\ Succeeds([form EXCEPT !.txHash = TheHash])
          ELSE /\ Catch(message)
               /\ UNCHANGED tx

\* The chain mines a plain transfer the form has sent: the contract's
\* receive() reverts it, any other account takes it.
Mined ==
    /\ tx.mode = "direct"
    /\ tx.status = "pending"
    /\ tx' = [tx EXCEPT !.status = IF tx.to = This THEN "reverted" ELSE "succeeded"]
    /\ UNCHANGED <<contractVars, form, handler, wallet>>

\* The page after its first render and effect, over a freshly deployed
\* contract, with every wallet and every configured address.
InitForm ==
    /\ owner = Deployer
    /\ feeRecipient = Deployer
    /\ paymentCounter = 0
    /\ platformFeeBps = 25
    /\ payments = [i \in Ids |-> NoPayment]
    /\ userPayments = [a \in Senders |-> <<>>]
    /\ balance = [a \in Senders \cup {This} |-> IF a = This THEN 0 ELSE InitBalance]
    /\ log = <<>>
    /\ transfers = <<>>
    /\ stack = <<>>
    /\ now = 0
    /\ ret = NoRet
    /\ \E address \in ContractAddresses :
          form = [InitialForm EXCEPT !.contractAddress = address]
    /\ handler = NoHandler
    /\ wallet \in [account : Accounts, provider : BOOLEAN]
    /\ tx = NoTx

NextForm ==
    \/ handleSubmit
    \/ \E value \in AmountInputs : setAmount(value)
    \/ \E value \in RecipientInputs : setRecipient(value)
    \/ \E value \in DescriptionInputs : setDescription(value)
    \/ \E checked \in BOOLEAN : setUseContract(checked)
    \/ \E ok \in BOOLEAN, message \in Messages : ImportResolves(ok, message)
    \/ \E ok \in BOOLEAN, message \in Messages : SendResolves(ok, message)
    \/ \E ok \in BOOLEAN, found \in BOOLEAN, message \in Messages :
          WaitResolves(ok, found, message)
    \/ \E ok \in BOOLEAN, message \in Messages : RequestResolves(ok, message)
    \/ Mined

SpecForm == InitForm /\ [][NextForm]_vars

\* ================================================================ claims
\* A state between transactions: no frame of the contract is suspended.
Committed == stack = <<>>

RECURSIVE SumAmounts(_)
SumAmounts(ts) == IF ts = <<>> THEN 0 ELSE Head(ts).amount + SumAmounts(Tail(ts))

\* The transfers made for leg `kind` of payment id, and all those made for id.
Legs(kind, id) == SelectSeq(transfers, LAMBDA t : t.kind = kind /\ t.id = id)
TransfersOf(id) == SelectSeq(transfers, LAMBDA t : t.id = id)
PaidOut(id) == SumAmounts(TransfersOf(id))

EventsOf(name, id) == SelectSeq(log, LAMBDA e : e.name = name /\ e.paymentId = id)

\* C1: in every committed state, the transfers made for a payment (fee leg,
\* recipient leg, refund, cancel) never add up to more than its amount.
C1_PayoutNeverExceedsAmount ==
    Committed => \A id \in 1..paymentCounter : PaidOut(id) <= payments[id].amount

\* The scenario of section 8: fee rate 25, a fee recipient, one payment of 1000
\* by A to B, and a refundPayment(1) by A that has just ended.
C2_Scenario ==
    /\ Committed
    /\ ret.fn = "refundPayment" /\ ret.sender = "A" /\ ret.id = 1
    /\ paymentCounter = 1
    /\ payments[1].payer = "A" /\ payments[1].recipient = "B"
    /\ payments[1].amount = 1000
    /\ platformFeeBps = 25
    /\ feeRecipient # Null

\* C2: in that scenario the refundPayment(1) by A either succeeded (A was sent
\* 1000, the status is Refunded, one PaymentRefunded event was emitted) or was
\* the second one and failed with the state error.
C2_RefundScenario ==
    C2_Scenario =>
        /\ payments[1].status = Refunded
        /\ Len(EventsOf("PaymentRefunded", 1)) = 1
        /\ Legs("refund", 1) = <<[to |-> "A", amount |-> 1000, kind |-> "refund", id |-> 1]>>
        /\ \/ ret.result = Ok /\ ret.before.payments[1].status = Completed
           \/ ret.result = ErrCannotRefund /\ ret.before.payments[1].status = Refunded

C4_StatusWrittenBeforeTransfer ==
    /\ \A i \in 1..Len(stack) :
          LET f == stack[i]
          IN  /\ f.pc \in {"fee", "pay"} => payments[f.id].status \in {Completed, Refunded}
              /\ f.pc = "refund" => payments[f.id].status = Refunded
              /\ f.pc = "cancel" => payments[f.id].status = Cancelled
    /\ \A id \in 1..paymentCounter :
          \A kind \in {"fee", "pay", "refund", "cancel"} : Len(Legs(kind, id)) <= 1

\* C4 witness: from inside the payout of a refund, the receiver has called
\* refundPayment on the same payment again and was rejected for its status.
C4_Witness ==
    /\ stack # <<>>
    /\ Top.pc = "refund"
    /\ ret.fn = "refundPayment" /\ ret.id = Top.id
    /\ ret.result = ErrCannotRefund

\* C5: a call one of whose outbound transfers failed has failed as a whole,
\* and the state is the one at its entry: no status, record, index entry, id,
\* event or payout of it remains.
C5_AllOrNothing ==
    ret.transferFailed =>
        /\ ret.result \in {ErrFeeTransfer, ErrPayTransfer, ErrRefundTransfer,
                           ErrCancelTransfer, ErrWithdraw}
        /\ World = ret.before

\* C5 witness: a createPayment whose fee leg was paid has just failed on its
\* recipient leg.
C5_Witness ==
    /\ Committed
    /\ ret.fn = "createPayment" /\ ret.transferFailed
    /\ ret.result = ErrPayTransfer
    /\ PaysFee(FeeAmount(10, platformFeeBps), feeRecipient)

\* C6: a createPayment that has just succeeded leaves its payment Completed.
C6_CreatedIsCompleted ==
    (ret.fn = "createPayment" /\ ret.result = Ok) =>
        payments[ret.id].status = Completed

\* C7 (under SpecSplit): for the payment a createPayment frame is completing,
\* feeAmount is the floor of amount * platformFeeBps / 10000 and is what the
\* fee leg paid, recipientAmount is amount - feeAmount and is what the
\* recipient leg pays, feeAmount is at most a tenth of amount, and 1000 at
\* 25 bps splits into 2 and 998.
C7_SplitIsFloor ==
    \A i \in 1..Len(stack) :
        LET f == stack[i]
            amount == payments[f.id].amount
            feeLegs == Legs("fee", f.id)
            feeAmount == IF feeLegs = <<>> THEN 0 ELSE feeLegs[1].amount
            recipientAmount == f.amount
        IN  f.fn = "createPayment" =>
              /\ amount > 0
              /\ feeAmount * 10000 <= amount * platformFeeBps
              /\ amount * platformFeeBps < (feeAmount + 1) * 10000
              /\ feeAmount + recipientAmount = amount
              /\ 0 <= feeAmount /\ feeAmount * 10 <= amount
              /\ f.pc = "pay" =>
                    Legs("pay", f.id) = <<[to |-> payments[f.id].recipient,
                                           amount |-> recipientAmount,
                                           kind |-> "pay", id |-> f.id]>>
              /\ (amount = 1000 /\ platformFeeBps = 25) =>
                    (feeAmount = 2 /\ recipientAmount = 998)

\* C7 witness: the recipient leg of a payment of 1000 at 25 bps is under way.
C7_Witness ==
    /\ stack # <<>>
    /\ Top.fn = "createPayment" /\ Top.pc = "pay"
    /\ payments[Top.id].amount = 1000 /\ platformFeeBps = 25
    /\ Len(Legs("fee", Top.id)) = 1

\* C8: a createPayment that has just succeeded leaves the contract's balance
\* as it was at its entry.
C8_NoFundsHeld ==
    (ret.fn = "createPayment" /\ ret.result = Ok) =>
        balance[This] = ret.before.balance[This]

\* The statuses a payment may have after a call, given the one before it.
MayFollow(before, after) ==
    \/ after = before
    \/ before = Pending /\ after \in {Completed, Cancelled, Refunded}
    \/ before = Completed /\ after = Refunded

C10_UnauthorizedRejected ==
    LET p == ret.before.payments[ret.id]
    IN  (/\ ret.fn \in {"refundPayment", "cancelPayment"}
         /\ p.exists
         /\ ret.sender # p.payer /\ ret.sender # ret.before.owner) =>
            (ret.result = ErrUnauthorized /\ World = ret.before)

\* C10 witness: a third party's cancelPayment on a Refunded payment has just
\* been rejected.
C10_Witness ==
    /\ ret.fn = "cancelPayment" /\ ret.result = ErrUnauthorized
    /\ ret.sender \notin {payments[ret.id].payer, owner}
    /\ payments[ret.id].status = Refunded

\* C11: in every state, committed or not, platformFeeBps is between 0 and 1000
\* inclusive, whoever called updatePlatformFee and with whatever rate.
C11_FeeRateBounded == platformFeeBps \in 0..MaxFeeBps

\* C11 witness: the rate is at its maximum and the admin's attempt to raise it
\* above has just been rejected.
C11_Witness ==
    /\ platformFeeBps = MaxFeeBps
    /\ ret.fn = "updatePlatformFee" /\ ret.sender = owner
    /\ ret.result = ErrFeeTooHigh

AdminOnly == {"updatePlatformFee", "updateFeeRecipient", "emergencyWithdraw"}

\* C13: an updatePlatformFee, updateFeeRecipient or emergencyWithdraw called
\* by anyone but the admin failed as unauthorized and left the rate, the fee
\* recipient, the balances, every payment record and all the rest unchanged.
C13_AdminOnlyRejected ==
    (ret.fn \in AdminOnly /\ ret.sender # ret.before.owner) =>
        /\ ret.result = ErrNotOwner
        /\ platformFeeBps = ret.before.platformFeeBps
        /\ feeRecipient = ret.before.feeRecipient
        /\ balance = ret.before.balance
        /\ payments = ret.before.payments
        /\ World = ret.before

\* C13 witness: the fee recipient, who is also the payer of a payment, has
\* just been refused the withdrawal of a balance the contract holds.
C13_Witness ==
    /\ ret.fn = "emergencyWithdraw" /\ ret.result = ErrNotOwner
    /\ ret.sender = feeRecipient /\ ret.sender # owner
    /\ \E id \in 1..paymentCounter : payments[id].payer = ret.sender
    /\ balance[This] > 0

\* The transfers issued since the state `before`.
TransfersSince(before) == SubSeq(transfers, Len(before.transfers) + 1, Len(transfers))

C15_IdsDense ==
    /\ \A id \in Ids : payments[id].exists <=> (1 <= id /\ id <= getPaymentCount)
    /\ \A id \in 1..getPaymentCount : payments[id].id = id
    /\ (ret.fn = "createPayment" /\ ret.result = Ok) =>
          /\ ret.id = ret.before.paymentCounter + 1
          /\ ~ret.before.payments[ret.id].exists
          /\ getPaymentCount >= ret.id
    /\ (ret.fn = "createPayment" /\ ret.result # Ok) =>
          /\ getPaymentCount = ret.before.paymentCounter
          /\ payments = ret.before.payments
    /\ ~Idle =>
          /\ getPaymentCount >= ret.before.paymentCounter
          /\ \A id \in Ids : ret.before.payments[id].exists => payments[id].exists

\* C15 witness: the second createPayment has just returned id 2.
C15_Witness ==
    /\ Committed
    /\ ret.fn = "createPayment" /\ ret.result = Ok /\ ret.id = 2
    /\ ret.before.paymentCounter = 1
    /\ getPaymentCount = 2

\* The record p with its status replaced by that of q.
WithStatusOf(p, q) == [p EXCEPT !.status = q.status]

\* C16: over any call that has ended, and since the entry of any call still
\* under way, every payment that existed then has kept its id, payer,
\* recipient, amount, timestamp, description and exists; at most its status
\* differs.
C16_RecordFieldsFrozen ==
    /\ ~Idle =>
          \A id \in Ids :
              ret.before.payments[id].exists =>
                  payments[id] = WithStatusOf(ret.before.payments[id], payments[id])
    /\ \A i \in 1..Len(stack) : \A id \in Ids :
          stack[i].snap.payments[id].exists =>
              payments[id] = WithStatusOf(stack[i].snap.payments[id], payments[id])

\* C16 witness: a payment created in an earlier block has just been refunded,
\* after another payment was created.
C16_Witness ==
    /\ Committed
    /\ ret.fn = "refundPayment" /\ ret.result = Ok
    /\ ret.before.payments[ret.id].status = Completed
    /\ payments[ret.id].status = Refunded
    /\ paymentCounter = 2
    /\ payments[1].timestamp # payments[2].timestamp

IsPrefix(s, t) == Len(s) <= Len(t) /\ SubSeq(t, 1, Len(s)) = s

\* C17: getUserPayments(a) lists, in strictly increasing order, exactly the
\* ids of the payments a created; over any call that has ended it kept the
\* sequence it had at the entry as a prefix, whatever became of the statuses.
C17_IndexAppendOnly ==
    /\ \A a \in Senders :
          LET ids == getUserPayments(a)
          IN  /\ \A i \in 1..Len(ids) :
                    /\ payments[ids[i]].exists /\ payments[ids[i]].payer = a
                    /\ \A j \in 1..Len(ids) : i < j => ids[i] < ids[j]
              /\ \A id \in 1..getPaymentCount :
                    payments[id].payer = a => \E i \in 1..Len(ids) : ids[i] = id
    /\ ~Idle =>
          \A a \in Senders : IsPrefix(ret.before.userPayments[a], getUserPayments(a))

\* C17 witness: A created two payments, the first was refunded and A's
\* refundPayment on it was then rejected; A's index still lists both.
C17_Witness ==
    /\ Committed
    /\ getUserPayments("A") = <<1, 2>>
    /\ payments[1].status = Refunded /\ payments[2].status = Completed
    /\ ret.fn = "refundPayment" /\ ret.id = 1 /\ ret.result = ErrCannotRefund

\* C18: a createPayment whose recipient is address(0) fails with the invalid
\* recipient error, one whose recipient is the caller with the pay-yourself
\* error, and one with a valid recipient and no value with the amount error;
\* in each case nothing is written: no id, record, index entry, transfer or
\* event, and no balance moves.  A createPayment with valid arguments fails
\* with none of the three.
C18_InvalidCreateRejected ==
    [][\A s \in Payers, r \in Recipients, d \in Descriptions, v \in Amounts :
          createPayment(s, r, d, v) =>
              /\ r = Null =>
                    (ret'.result = ErrInvalidRecipient /\ UNCHANGED <<worldVars, stack>>)
              /\ (r # Null /\ r = s) =>
                    (ret'.result = ErrPaySelf /\ UNCHANGED <<worldVars, stack>>)
              /\ (r # Null /\ r # s /\ v = 0) =>
                    (ret'.result = ErrAmount /\ UNCHANGED <<worldVars, stack>>)
              /\ (r # Null /\ r # s /\ v > 0) =>
                    ret'.result \notin {ErrInvalidRecipient, ErrPaySelf, ErrAmount}]_vars

\* C18 witness: after one payment was made, a createPayment without value
\* has just been rejected.
C18_Witness ==
    /\ ret.fn = "createPayment" /\ ret.result = ErrAmount
    /\ paymentCounter = 1 /\ Len(log) = 2
    /\ World = ret.before

\* C19: getPayment fails with the not-found error for id 0 and for every id
\* above getPaymentCount(), and for every id of 1..getPaymentCount() returns
\* the stored record; a refundPayment or cancelPayment on an id that did not
\* exist failed with the not-found error, whoever called, and changed nothing.
C19_UnknownIdNotFound ==
    /\ \A id \in Ids :
          IF 1 <= id /\ id <= getPaymentCount
          THEN /\ getPayment(id).result = Ok
               /\ getPayment(id).value = payments[id]
               /\ getPayment(id).value.id = id
               /\ getPayment(id).value.exists
          ELSE getPayment(id).result = ErrNotExist
    /\ (/\ ret.fn \in {"refundPayment", "cancelPayment"}
        /\ (ret.id = 0 \/ ret.id > ret.before.paymentCounter)) =>
            (ret.result = ErrNotExist /\ World = ret.before)

\* C19 witness: with one payment made, the admin's refundPayment of id 2 has
\* just failed, getPayment(1) succeeds and getPayment(0) and getPayment(2) fail.
C19_Witness ==
    /\ getPaymentCount = 1
    /\ ret.fn = "refundPayment" /\ ret.id = 2 /\ ret.sender = owner
    /\ ret.result = ErrNotExist
    /\ getPayment(1).result = Ok
    /\ getPayment(0).result = ErrNotExist /\ getPayment(2).result = ErrNotExist

\* The positions in the log of the events `name` of payment id.
PositionsOf(name, id) ==
    {i \in 1..Len(log) : log[i].name = name /\ log[i].paymentId = id}

\* C20: in every committed state the log holds, for every payment, exactly one
\* PaymentCreated with its id, payer, recipient, amount and description,
\* followed by exactly one PaymentCompleted with its recipient, at most one
\* PaymentRefunded and at most one PaymentCancelled with its payer and amount,
\* none of these before the PaymentCompleted; and a call that failed added
\* no event.
C20_OneNotificationPerTransition ==
    /\ Committed =>
          \A id \in 1..paymentCounter :
              LET p == payments[id]
                  created == PositionsOf("PaymentCreated", id)
                  completed == PositionsOf("PaymentCompleted", id)
                  undone == PositionsOf("PaymentRefunded", id)
                                \cup PositionsOf("PaymentCancelled", id)
              IN  /\ Cardinality(created) = 1
                  /\ Cardinality(completed) = 1
                  /\ Cardinality(PositionsOf("PaymentRefunded", id)) <= 1
                  /\ Cardinality(PositionsOf("PaymentCancelled", id)) <= 1
                  /\ \A i \in created :
                        /\ log[i].who = p.payer /\ log[i].recipient = p.recipient
                        /\ log[i].amount = p.amount
                        /\ log[i].description = p.description
                        /\ \A j \in completed : i < j
                  /\ \A j \in completed : log[j].recipient = p.recipient
                  /\ \A k \in undone :
                        /\ log[k].who = p.payer /\ log[k].amount = p.amount
                        /\ \A j \in completed : j < k
    /\ (~Idle /\ ret.result # Ok) => log = ret.before.log

\* C21: in every state feeRecipient is not address(0), whatever the argument
\* of the constructor was and whatever updateFeeRecipient calls were made.
C21_FeeRecipientNeverNull == feeRecipient # Null

\* C22: in every state, and at the entry of every call, the admin is the
\* deployer.
C22_AdminFixed ==
    /\ owner = Deployer
    /\ ~Idle => ret.before.owner = Deployer
    /\ \A i \in 1..Len(stack) : stack[i].snap.owner = Deployer

\* C22 witness: the admin has just handed the fees to another account, after
\* a payment was made.
C22_Witness ==
    /\ ret.fn = "updateFeeRecipient" /\ ret.result = Ok
    /\ feeRecipient # owner /\ feeRecipient # ret.before.feeRecipient
    /\ paymentCounter >= 1

\* C23: in every state, between transactions and wherever a receiver has
\* control, every existing payment is Completed or Refunded; no payment is
\* Pending or Cancelled, no cancelPayment has succeeded, no cancel payout is
\* made or under way, and a refundPayment that succeeded acted on a Completed
\* payment.
C23_NeverPending ==
    /\ \A id \in 1..paymentCounter : payments[id].status \in {Completed, Refunded}
    /\ ret.fn = "cancelPayment" => ret.result # Ok
    /\ \A i \in 1..Len(stack) : stack[i].fn # "cancelPayment"
    /\ \A i \in 1..Len(transfers) : transfers[i].kind # "cancel"
    /\ \A i \in 1..Len(log) : log[i].name # "PaymentCancelled"
    /\ (ret.fn = "refundPayment" /\ ret.result = Ok) =>
          ret.before.payments[ret.id].status = Completed

\* C23 witness: from inside the fee payout of its own payment, the payer has
\* called cancelPayment on it and was rejected for its status.
C23_Witness ==
    /\ stack # <<>>
    /\ Top.fn = "createPayment" /\ Top.pc = "fee"
    /\ ret.fn = "cancelPayment" /\ ret.id = Top.id
    /\ ret.sender = payments[Top.id].payer
    /\ ret.result = ErrOnlyPending

\* The transfers made of one kind, for whatever payment.
OfKind(kind) == SelectSeq(transfers, LAMBDA t : t.kind = kind)

\* What the contract kept of the payments 1..n whose fee leg was skipped:
\* the amount less what the recipient was paid.
RECURSIVE SkippedFees(_)
SkippedFees(n) ==
    IF n = 0 THEN 0
    ELSE SkippedFees(n - 1)
         + (IF Legs("fee", n) = <<>>
            THEN payments[n].amount - SumAmounts(Legs("pay", n))
            ELSE 0)

C25_CheckOrder ==
    LET p == ret.before.payments[ret.id]
        known == {p.payer, ret.before.owner}
    IN  ret.fn \in {"refundPayment", "cancelPayment"} =>
          /\ ~p.exists => ret.result = ErrNotExist
          /\ (p.exists /\ ret.sender \notin known) => ret.result = ErrUnauthorized
          /\ ret.result \in {ErrCannotRefund, ErrOnlyPending} =>
                (p.exists /\ ret.sender \in known)
          /\ (p.exists /\ ret.sender \in known /\ p.status = Refunded) =>
                ret.result = IF ret.fn = "refundPayment" THEN ErrCannotRefund
                             ELSE ErrOnlyPending

\* C25 witness: a third party's refundPayment on a payment that is already
\* Refunded has just been rejected for the caller, not for the status.
C25_Witness ==
    /\ ret.fn = "refundPayment" /\ ret.result = ErrUnauthorized
    /\ ret.sender \notin {payments[ret.id].payer, owner}
    /\ payments[ret.id].exists
    /\ payments[ret.id].status = Refunded

\* C26: a createPayment entered from the payout of another createPayment is
\* given the next id above every id allocated so far, the outer one's
\* included; ids stay dense and every index stays in id order; a call that
\* failed left the state of its entry; and when the outermost createPayment
\* fails, the state is again the one before it, without any record, index
\* entry, id, transfer or event of the calls made from inside it.
C26_NestedCreation ==
    /\ [](\A i \in 1..Len(stack) : \A j \in 1..Len(stack) :
            (i < j /\ stack[i].fn = "createPayment" /\ stack[j].fn = "createPayment") =>
                (/\ stack[j].id = stack[j].snap.paymentCounter + 1
                 /\ stack[j].id > stack[i].id
                 /\ stack[j].snap.payments[stack[i].id].exists))
    /\ []((/\ stack # <<>> /\ Top.fn = "createPayment"
           /\ ret.fn = "createPayment" /\ ret.result = Ok) =>
               (/\ ret.id = ret.before.paymentCounter + 1
                /\ ret.id > Top.id
                /\ payments[ret.id].id = ret.id /\ payments[Top.id].id = Top.id))
    /\ [](\A id \in Ids : payments[id].exists <=> (1 <= id /\ id <= paymentCounter))
    /\ [](\A a \in Senders : \A i \in 1..Len(userPayments[a]) :
            \A j \in 1..Len(userPayments[a]) :
                i < j => userPayments[a][i] < userPayments[a][j])
    /\ []((~Idle /\ ret.result # Ok) => World = ret.before)
    /\ [][(/\ stack # <<>> /\ stack[1].fn = "createPayment"
            /\ stack' = <<>> /\ ret'.result # Ok) =>
               (/\ paymentCounter' = stack[1].id - 1
                /\ payments' = stack[1].snap.payments
                /\ userPayments' = stack[1].snap.userPayments
                /\ balance' = stack[1].snap.balance
                /\ transfers' = stack[1].snap.transfers
                /\ log' = stack[1].snap.log)]_vars

\* C26 witness: inside the fee payout of payment 1, the fee recipient's own
\* createPayment has just returned id 2.
C26_Witness ==
    /\ Len(stack) = 1
    /\ Top.fn = "createPayment" /\ Top.pc = "fee" /\ Top.id = 1
    /\ ret.fn = "createPayment" /\ ret.result = Ok /\ ret.id = 2
    /\ userPayments[ret.sender] = <<1, 2>>

\* The split of payment id, paid or under way, is the one of the rate `rate`
\* and the fee recipient `to`: at most one fee leg, to `to`, of the floor of
\* amount * rate / 10000, and at most one recipient leg, of the rest.
SplitFixedAt(id, rate, to) ==
    LET amount == payments[id].amount
        feeLegs == Legs("fee", id)
        payLegs == Legs("pay", id)
    IN  /\ Len(feeLegs) <= 1 /\ Len(payLegs) <= 1
        /\ \A k \in 1..Len(feeLegs) :
              /\ feeLegs[k].to = to
              /\ feeLegs[k].amount * 10000 <= amount * rate
              /\ amount * rate < (feeLegs[k].amount + 1) * 10000
        /\ \A k \in 1..Len(payLegs) :
              /\ payLegs[k].to = payments[id].recipient
              /\ (amount - payLegs[k].amount) * 10000 <= amount * rate
              /\ amount * rate < (amount - payLegs[k].amount + 1) * 10000

\* C27: the split of a createPayment under way, and of one that has just
\* succeeded, is the one of the rate and the fee recipient in storage at its
\* entry, whatever updatePlatformFee and updateFeeRecipient did meanwhile;
\* the recipient leg under way is the one the frame computed at its start.
C27_SplitFixedAtStart ==
    /\ \A i \in 1..Len(stack) :
          LET f == stack[i]
          IN  f.fn = "createPayment" =>
                /\ SplitFixedAt(f.id, f.snap.platformFeeBps, f.snap.feeRecipient)
                /\ f.pc = "pay" =>
                      (Len(Legs("pay", f.id)) = 1
                       /\ Legs("pay", f.id)[1].amount = f.amount)
    /\ (ret.fn = "createPayment" /\ ret.result = Ok) =>
          /\ SplitFixedAt(ret.id, ret.before.platformFeeBps, ret.before.feeRecipient)
          /\ Len(Legs("pay", ret.id)) = 1

\* C27 witness: during the fee payout the admin changed both the rate and the
\* fee recipient, and the recipient leg of that payment is now under way.
C27_Witness ==
    /\ stack # <<>>
    /\ Top.fn = "createPayment" /\ Top.pc = "pay"
    /\ Len(Legs("fee", Top.id)) = 1
    /\ platformFeeBps # Top.snap.platformFeeBps
    /\ feeRecipient # Top.snap.feeRecipient

\* What a call on one payment must leave alone, apart from that payment.
OthersUnchanged(id) ==
    /\ \A j \in Ids : j # id => payments'[j] = payments[j]
    /\ UNCHANGED <<userPayments, paymentCounter, platformFeeBps, feeRecipient, owner>>

\* C28: the step in which a refundPayment(id) or cancelPayment(id) passes its
\* checks and starts its payout writes only the status of payments[id], the
\* balances and the transfers; the step in which it returns successfully adds
\* only the event; every other record, every index, the counter, the rate,
\* the fee recipient and the admin are as before.  The steps of a
\* createPayment that does not fail leave every existing record as it was.
C28_OtherPaymentsUntouched ==
    /\ [][(/\ Len(stack') = Len(stack) + 1
            /\ stack'[Len(stack')].fn \in {"refundPayment", "cancelPayment"}) =>
               (/\ OthersUnchanged(stack'[Len(stack')].id)
                /\ payments'[stack'[Len(stack')].id] =
                       WithStatusOf(payments[stack'[Len(stack')].id],
                                    payments'[stack'[Len(stack')].id])
                /\ log' = log)]_vars
    /\ [][(/\ Len(stack') = Len(stack) - 1
            /\ ret'.fn \in {"refundPayment", "cancelPayment"}
            /\ ret'.result = Ok) =>
               (/\ OthersUnchanged(ret'.id)
                /\ payments'[ret'.id] = payments[ret'.id]
                /\ UNCHANGED <<balance, transfers>>
                /\ Len(log') = Len(log) + 1)]_vars
    /\ [][(/\ Len(stack') = Len(stack) + 1
            /\ stack'[Len(stack')].fn = "createPayment") =>
               (\A j \in Ids : payments[j].exists => payments'[j] = payments[j])]_vars
    /\ [][(/\ stack # <<>>
            /\ Top.fn = "createPayment"
            /\ \/ Len(stack') = Len(stack) /\ stack' # stack
               \/ Len(stack') = Len(stack) - 1 /\ ret'.result = Ok
                    /\ ret'.fn = "createPayment") =>
               (/\ payments' = payments
                /\ UNCHANGED <<userPayments, paymentCounter>>)]_vars

\* C28 witness: the first of two payments has just been refunded and the
\* second is still Completed.
C28_Witness ==
    /\ ret.fn = "refundPayment" /\ ret.result = Ok /\ ret.id = 1
    /\ payments[1].status = Refunded
    /\ payments[2].exists /\ payments[2].status = Completed
    /\ payments[2] = ret.before.payments[2]

\* The positions of id in the index of u.
IndexPositions(u, id) ==
    {i \in 1..Len(getUserPayments(u)) : getUserPayments(u)[i] = id}

RECURSIVE TotalLen(_)
TotalLen(users) ==
    IF users = {} THEN 0
    ELSE LET u == CHOOSE x \in users : TRUE
         IN  Len(getUserPayments(u)) + TotalLen(users \ {u})

\* C29: in every state, id is in getUserPayments(u) exactly when payments[id]
\* exists and u is its payer; it is there once; the index of an account holds
\* no id of a payment it only receives or administers; and the lengths of
\* all indexes add up to getPaymentCount().
C29_IndexMatchesRecords ==
    /\ \A u \in Senders : \A id \in Ids :
          /\ IndexPositions(u, id) # {} <=> (payments[id].exists /\ payments[id].payer = u)
          /\ Cardinality(IndexPositions(u, id)) <= 1
    /\ \A u \in Senders : \A i \in 1..Len(getUserPayments(u)) :
          getUserPayments(u)[i] \in 1..getPaymentCount
    /\ TotalLen(Senders) = getPaymentCount

\* C29 witness: two payments by A to B are committed; B's and the admin's
\* indexes are empty.
C29_Witness ==
    /\ Committed
    /\ getPaymentCount = 2
    /\ payments[1].recipient = "B" /\ payments[2].recipient = "B"
    /\ getUserPayments("A") = <<1, 2>>
    /\ getUserPayments("B") = <<>> /\ getUserPayments(owner) = <<>>

C31_LoadingBracketsSubmission ==
    /\ [][handleSubmit =>
            IF Rejection # ""
               THEN /\ form'.error = Rejection
                    /\ ~form'.loading
                    /\ handler'.pc = "idle"
                    /\ tx' = NoTx
               ELSE /\ form'.loading
                    /\ handler'.pc = "import"
                    /\ tx' = NoTx]_vars
    /\ [][(tx'.status = "pending" /\ tx.status # "pending") =>
            (form.loading /\ handler.pc \in {"send", "request"})]_vars
    /\ []((handler.pc = "idle") <=> ~form.loading)

\* A submission that sent its transaction and then threw (the transaction
\* reverted) has ended with an error and with loading false.
C31_Witness ==
    /\ handler.pc = "idle"
    /\ tx.mode = "contract"
    /\ tx.status = "reverted"
    /\ form.error # JsNull
    /\ ~form.loading

\* ------------------------------------------------------------------ C32
\* The three fields handleSubmit empties after a success.
FieldsOf(f) == <<f.amount, f.recipient, f.description>>

\* Every submission starts by clearing error, txHash and paymentId (the
\* error of a rejected submission is the one it sets itself).
SubmissionClearsOutcome ==
    [][handleSubmit =>
         /\ form'.txHash = JsNull
         /\ form'.paymentId = JsNull
         /\ form'.error = IF Rejection # "" THEN Rejection ELSE JsNull]_vars

\* txHash and error are never both set.
HashAndErrorExclusive == [](~(form.txHash # JsNull /\ form.error # JsNull))

\* A txHash on display belongs to a transaction that has not failed, and a
\* paymentId to a contract payment that was mined with its event found.
HashOnlyOfSuccess ==
    /\ [](form.txHash # JsNull => tx.status \in {"pending", "succeeded"})
    /\ [](form.paymentId # JsNull =>
            (form.txHash # JsNull /\ tx.mode = "contract" /\ tx.status = "succeeded"))

\* The step that ends a submission empties the three fields if its
\* transaction went through and leaves them as they are if not.
FieldsClearedWithSuccess ==
    [][(handler.pc # "idle" /\ handler'.pc = "idle") =>
         IF tx'.status \in {"pending", "succeeded"}
            THEN FieldsOf(form') = <<"", "", "">>
            ELSE FieldsOf(form') = FieldsOf(form)]_vars

\* C32: every submission first clears error, txHash and paymentId; txHash
\* and error are never both set; txHash, and paymentId when the
\* PaymentCreated event was found, is set only if the transaction succeeded;
\* and the amount, recipient and description fields are emptied if and only
\* if the transaction succeeded.
C32_SubmissionOutcome ==
    /\ SubmissionClearsOutcome
    /\ HashAndErrorExclusive
    /\ HashOnlyOfSuccess
    /\ FieldsClearedWithSuccess

====
